---- MODULE Spec2Model ----
(***************************************************************************)
(* Model of utils/pointnet2_utils.py: the autograd glue around the         *)
(* furthest-point-sampling kernel (FurthestPointSampling), the tensor-     *)
(* comprehension gather/group operators, BallQuery, QueryAndGroup and      *)
(* GroupAll.                                                               *)
(*                                                                         *)
(* Tensors are functions over 0-based index ranges, as in the source.      *)
(* Distances are squared euclidean distances on an integer grid; squaring  *)
(* is monotone, so every min, argmax and comparison of the kernel is the   *)
(* same on them.  The grid unit is half the distance whose kernel value is *)
(* the 1e10 that forward fills the scratch with, so that sentinel is 4 in  *)
(* squared grid units (TempInit).                                          *)
(***************************************************************************)
EXTENDS Integers, FiniteSets, Sequences, TLC

\* ------------------------------------------------------------------ bounds
MaxN == 3          \* points per batch element, single-lane inputs
MaxCoord == 3      \* largest grid coordinate on the x axis
MaxB == 2          \* batch elements (lanes) of the multi-lane inputs
LaneN == 2         \* points per batch element of the multi-lane inputs

\* forward: temp = torch.cuda.FloatTensor(B, N).fill_(1e10), in squared grid units
TempInit == 4

\* Content of device memory that the behaviour never wrote: no index and no
\* scratch value the program computes equals it.
Uninit == 2 * TempInit

\* Python's None, as a returned gradient; GradTensor(a): a gradient tensor
\* whose entries sum to a
None == [none |-> TRUE]
GradTensor(a) == [sum |-> a]

\* ------------------------------------------------------------------ inputs
Pts == {<<x, 0, 0>> : x \in 0..MaxCoord} \cup {<<0, 1, 0>>, <<0, 0, 1>>}
LanePts == {<<0, 0, 0>>, <<1, 0, 0>>}
GradVals == {0, 1}

VARIABLES
    B,           \* xyz.size(0)
    N,           \* xyz.size(1)
    npoint,      \* forward's npoint argument
    contiguous,  \* xyz.is_contiguous()
    xyz,         \* [0..B-1 -> [0..N-1 -> point]]
    pc,          \* position of FurthestPointSampling.forward
    err,         \* exception raised by forward, "none" if none
    output,      \* device memory of the (B, npoint) int tensor
    temp,        \* device memory of the (B, N) float tensor
    cnt,         \* per lane: selections recorded so far
    old,         \* per lane: last selected index
    result,      \* value returned by forward (<<>> before it returns)
    bwdResult,   \* value returned by backward (<<>> before it runs)
    gradOut,     \* gradient handed to backward, summed over its entries
    xyzGrad,     \* xyz.grad, summed over its entries
    memo         \* history: one earlier call, <<xyz, npoint, result>>, or <<>>

VARIABLES
    tcOp,        \* which tensor-comprehension operator is applied
    tcPoints,    \* its points argument, (B, C, N)
    tcIdx,       \* its idx argument, (B, NP) or (B, NP, NS)
    tcGradOut,   \* the gradient of its output
    tcOut,       \* its output (<<>> before the forward pass)
    tcGrad,      \* grad_points (<<>> before the backward pass)
    tcPc         \* "start", "forward", "backward"

VARIABLES
    gXyz,        \* xyz, (B, N, 3)
    gNewXyz,     \* new_xyz, (B, npoint, 3)
    gPoints,     \* points, (B, C, N), or NoTensor
    gRadius,     \* self.radius / radius
    gNsample,    \* self.nsample / nsample
    gUseXyz,     \* self.use_xyz
    gIdx,        \* idx returned by ball_query (<<>> before it returns)
    gCnt,        \* per center: entries of idx the search wrote
    gRet,        \* value returned by the module's forward (<<>> before)
    gPc          \* "start", or the call that was made

tcVars == <<tcOp, tcPoints, tcIdx, tcGradOut, tcOut, tcGrad, tcPc>>

grpVars == <<gXyz, gNewXyz, gPoints, gRadius, gNsample, gUseXyz, gIdx, gCnt,
             gRet, gPc>>

fpsVars == <<B, N, npoint, contiguous, xyz, pc, err, output, temp, cnt, old,
             result, bwdResult, gradOut, xyzGrad, memo>>

vars == <<fpsVars, tcVars, grpVars>>

\* ------------------------------------------------------------------ helpers
Min(a, b) == IF a <= b THEN a ELSE b

Sq(a) == a * a

\* squared euclidean distance of two points
Dist2(p, q) == Sq(p[1] - q[1]) + Sq(p[2] - q[2]) + Sq(p[3] - q[3])

\* torch.cuda.IntTensor(rows, cols) / torch.cuda.FloatTensor(rows, cols):
\* uninitialised memory, holding what an earlier tensor left there
CudaTensor(mem, rows, cols) ==
    [b \in 0..(rows - 1) |->
        [k \in 0..(cols - 1) |->
            IF b \in DOMAIN mem /\ k \in DOMAIN mem[b]
            THEN mem[b][k] ELSE Uninit]]

\* Tensor.fill_(v)
Fill(t, v) == [b \in DOMAIN t |-> [k \in DOMAIN t[b] |-> v]]

\* a scratch that is zeroed, like the other buffers of the file
NewTempZero(mem, rows, cols) == Fill(CudaTensor(mem, rows, cols), 0)

\* a scratch that is allocated and never filled
NewTempNoFill(mem, rows, cols) == CudaTensor(mem, rows, cols)

\* temp = torch.cuda.FloatTensor(B, N).fill_(1e10)
NewTemp(mem, rows, cols) == Fill(CudaTensor(mem, rows, cols), TempInit)

\* output = torch.cuda.IntTensor(B, npoint)
NewOutput(mem, rows, cols) == CudaTensor(mem, rows, cols)

\* ------------------------------------------------------------------ kernel
\* Step 3a of the sampler: dist[i] = min(dist[i], d(point[i], point[last])).
\* Every point is updated: a selected point is at distance 0 of itself,
\* which is what keeps it from being the argmax of step 3b ("over all
\* points") while an unselected point is farther than 0.
UpdateDist(row, pts, last) ==
    [i \in DOMAIN row |-> Min(row[i], Dist2(pts[i], pts[last]))]

\* Step 3b: argmax over all points, ties broken by lowest index
ArgMax(row) ==
    CHOOSE i \in DOMAIN row :
        /\ \A j \in DOMAIN row : row[j] <= row[i]
        /\ \A j \in DOMAIN row : row[j] = row[i] => i <= j

\* a kernel whose lanes all work on scratch row 0
ScratchRowShared(b) == 0

\* the scratch row lane b owns
ScratchRow(b) == b

\* ------------------------------------------------------------------ idle parts
\* the tensor-comprehension operators are not applied
TcIdle ==
    /\ tcOp = "none"
    /\ tcPoints = <<>>
    /\ tcIdx = <<>>
    /\ tcGradOut = <<>>
    /\ tcOut = <<>>
    /\ tcGrad = <<>>
    /\ tcPc = "idle"

\* no ball query and no grouping module is called
GrpIdle ==
    /\ gXyz = <<>>
    /\ gNewXyz = <<>>
    /\ gPoints = <<>>
    /\ gRadius = 0
    /\ gNsample = 0
    /\ gUseXyz = FALSE
    /\ gIdx = <<>>
    /\ gCnt = <<>>
    /\ gRet = <<>>
    /\ gPc = "idle"

\* furthest_point_sample is not applied
FpsIdle ==
    /\ B = 0
    /\ N = 0
    /\ npoint = 0
    /\ contiguous = TRUE
    /\ xyz = <<>>
    /\ pc = "idle"
    /\ err = "none"
    /\ output = <<>>
    /\ temp = <<>>
    /\ cnt = <<>>
    /\ old = <<>>
    /\ result = <<>>
    /\ bwdResult = <<>>
    /\ gradOut = 0
    /\ xyzGrad = 0
    /\ memo = <<>>

\* ------------------------------------------------------------------ forward
Lanes == 0..(B - 1)

InputOK ==
    /\ npoint \in 0..(N + 1)
    /\ contiguous \in BOOLEAN

\* state before the first statement of forward
Fresh ==
    /\ pc = "start"
    /\ err = "none"
    /\ output = <<>>
    /\ temp = <<>>
    /\ cnt = [b \in Lanes |-> 0]
    /\ old = [b \in Lanes |-> 0]
    /\ result = <<>>
    /\ bwdResult = <<>>
    /\ gradOut = 0
    /\ xyzGrad = 0
    /\ memo = <<>>

\* one batch element, any point of the grid
InitSingle ==
    /\ B = 1
    /\ N \in 1..MaxN
    /\ xyz \in [0..(B - 1) -> [0..(N - 1) -> Pts]]

\* several batch elements, on two grid points
InitLanes ==
    /\ B \in 2..MaxB
    /\ N \in 1..LaneN
    /\ xyz \in [0..(B - 1) -> [0..(N - 1) -> LanePts]]

Init ==
    /\ InitSingle \/ InitLanes
    /\ InputOK
    /\ Fresh
    /\ TcIdle
    /\ GrpIdle

\* assert xyz.is_contiguous(); B, N, _ = xyz.size()
ForwardCheck ==
    /\ pc = "start"
    /\ IF contiguous
       THEN pc' = "checked" /\ err' = err
       ELSE pc' = "error" /\ err' = "AssertionError"
    /\ UNCHANGED <<B, N, npoint, contiguous, xyz, output, temp, cnt, old,
                   result, bwdResult, gradOut, xyzGrad, memo,
                   tcVars, grpVars>>

\* output = torch.cuda.IntTensor(B, npoint)
\* temp = torch.cuda.FloatTensor(B, N).fill_(1e10)
ForwardAlloc ==
    /\ pc = "checked"
    /\ output' = NewOutput(output, B, npoint)
    /\ temp' = NewTemp(temp, B, N)
    /\ pc' = "allocated"
    /\ UNCHANGED <<B, N, npoint, contiguous, xyz, err, cnt, old, result,
                   bwdResult, gradOut, xyzGrad, memo,
                   tcVars, grpVars>>

\* pointnet2.furthest_point_sampling_wrapper(B, N, npoint, xyz, temp, output):
\* the lanes start
KernelLaunch ==
    /\ pc = "allocated"
    /\ pc' = "kernel"
    /\ cnt' = [b \in Lanes |-> 0]
    /\ old' = [b \in Lanes |-> 0]
    /\ UNCHANGED <<B, N, npoint, contiguous, xyz, err, output, temp, result,
                   bwdResult, gradOut, xyzGrad, memo,
                   tcVars, grpVars>>

\* Step 2 of lane b: select index 0 and record it
SelectFirst(b) ==
    /\ pc = "kernel"
    /\ cnt[b] = 0
    /\ cnt[b] < npoint
    /\ output' = [output EXCEPT ![b][0] = 0]
    /\ old' = [old EXCEPT ![b] = 0]
    /\ cnt' = [cnt EXCEPT ![b] = 1]
    /\ UNCHANGED <<B, N, npoint, contiguous, xyz, pc, err, temp, result,
                   bwdResult, gradOut, xyzGrad, memo,
                   tcVars, grpVars>>

\* Step 3 of lane b, one round: update the scratch row, select the argmax,
\* record it
SelectNext(b) ==
    /\ pc = "kernel"
    /\ cnt[b] > 0
    /\ cnt[b] < npoint
    /\ LET r == ScratchRow(b)
           row == UpdateDist(temp[r], xyz[b], old[b])
           best == ArgMax(row)
       IN /\ temp' = [temp EXCEPT ![r] = row]
          /\ output' = [output EXCEPT ![b][cnt[b]] = best]
          /\ old' = [old EXCEPT ![b] = best]
          /\ cnt' = [cnt EXCEPT ![b] = cnt[b] + 1]
    /\ UNCHANGED <<B, N, npoint, contiguous, xyz, pc, err, result,
                   bwdResult, gradOut, xyzGrad, memo,
                   tcVars, grpVars>>

\* a wrapper call that hands control back while lanes still run
KernelDoneEarly == TRUE

\* the wrapper call is over: every lane has recorded its npoint selections
KernelDone == \A b \in Lanes : cnt[b] >= npoint

\* return output
ForwardReturn ==
    /\ pc = "kernel"
    /\ KernelDone
    /\ result' = output
    /\ pc' = "returned"
    /\ UNCHANGED <<B, N, npoint, contiguous, xyz, err, output, temp, cnt, old,
                   bwdResult, gradOut, xyzGrad, memo,
                   tcVars, grpVars>>

\* ------------------------------------------------------------------ backward
\* a backward that hands the incoming gradient on to xyz
BackwardPassThrough(a) == <<GradTensor(a), None>>

\* FurthestPointSampling.backward: return None, None
BackwardFn(a) == <<None, None>>

\* autograd adds a returned gradient to the input's .grad; None adds nothing
Accumulate(g, r) == IF r = None THEN g ELSE g + r.sum

Backward ==
    /\ pc = "returned"
    /\ bwdResult = <<>>
    /\ \E a \in GradVals :
          /\ gradOut' = a
          /\ bwdResult' = BackwardFn(a)
          /\ xyzGrad' = Accumulate(xyzGrad, BackwardFn(a)[1])
    /\ UNCHANGED <<B, N, npoint, contiguous, xyz, pc, err, output, temp, cnt,
                   old, result, memo,
                   tcVars, grpVars>>

\* ------------------------------------------------------------------ next call
\* furthest_point_sample is applied again, to a tensor of the same shape; the
\* history variable may keep the call that just ended
NewCall ==
    /\ pc \in {"returned", "error"}
    /\ xyz' \in [0..(B - 1) -> [0..(N - 1) -> LanePts]]
    /\ npoint' \in 0..(N + 1)
    /\ contiguous' \in BOOLEAN
    /\ \/ memo' = memo
       \/ /\ memo = <<>>
          /\ pc = "returned"
          /\ memo' = <<xyz, npoint, result>>
    /\ pc' = "start"
    /\ err' = "none"
    /\ result' = <<>>
    /\ bwdResult' = <<>>
    /\ UNCHANGED <<B, N, output, temp, cnt, old, gradOut, xyzGrad,
                   tcVars, grpVars>>

Next ==
    \/ ForwardCheck
    \/ ForwardAlloc
    \/ KernelLaunch
    \/ \E b \in Lanes : SelectFirst(b)
    \/ \E b \in Lanes : SelectNext(b)
    \/ ForwardReturn
    \/ Backward

Spec == Init /\ [][Next]_vars

\* repeated calls on one batch element
InitSeq ==
    /\ B = 1
    /\ N \in 1..LaneN
    /\ xyz \in [0..(B - 1) -> [0..(N - 1) -> LanePts]]
    /\ InputOK
    /\ Fresh
    /\ TcIdle
    /\ GrpIdle

NextSeq ==
    \/ ForwardCheck
    \/ ForwardAlloc
    \/ KernelLaunch
    \/ \E b \in Lanes : SelectFirst(b)
    \/ \E b \in Lanes : SelectNext(b)
    \/ ForwardReturn
    \/ Backward
    \/ NewCall

SpecSeq == InitSeq /\ [][NextSeq]_vars

\* calls on several batch elements
InitFair ==
    /\ InitLanes
    /\ InputOK
    /\ Fresh
    /\ TcIdle
    /\ GrpIdle

\* a dispatched kernel's lanes run to completion and the call returns
SpecFair == InitFair /\ [][Next]_vars /\ WF_vars(Next)

\* ------------------------------------------------------------------ gather / group
\* shapes of the tensor-comprehension operators' arguments
TcN == 2
TcBatch == {0, 1}
TcChan == {0, 1}
TcPos == 0..(TcN - 1)
TcCentres == {0, 1}
TcSamples == {0, 1}

RECURSIVE Pow2(_)
Pow2(k) == IF k = 0 THEN 1 ELSE 2 * Pow2(k - 1)

\* points: every entry different, or every entry a product of its indices
TcPointsVals ==
    { [b \in TcBatch |-> [c \in TcChan |-> [n \in TcPos |->
          1 + n + TcN * (c + 2 * b)]]],
      [b \in TcBatch |-> [c \in TcChan |-> [n \in TcPos |->
          (n + 1) * (c + 1)]]] }

\* grad_out of gather_points: all ones, or a different power of two per np
TcGatherGrads ==
    { [b \in TcBatch |-> [c \in TcChan |-> [m \in TcCentres |-> 1]]],
      [b \in TcBatch |-> [c \in TcChan |-> [m \in TcCentres |->
          Pow2(m) * (1 + c + 2 * b)]]] }

\* grad_out of group_points: all ones, or a different power of two per (np, ns)
TcGroupGrads ==
    { [b \in TcBatch |-> [c \in TcChan |-> [m \in TcCentres |->
          [k \in TcSamples |-> 1]]]],
      [b \in TcBatch |-> [c \in TcChan |-> [m \in TcCentres |->
          [k \in TcSamples |-> Pow2(2 * m + k) * (1 + c + 2 * b)]]]] }

TcInit ==
    /\ tcPoints \in TcPointsVals
    /\ \/ /\ tcOp = "gather"
          /\ tcIdx \in [TcBatch -> [TcCentres -> TcPos]]
          /\ tcGradOut \in TcGatherGrads
       \/ /\ tcOp = "group"
          /\ tcIdx \in [TcBatch -> [TcCentres -> [TcSamples -> TcPos]]]
          /\ tcGradOut \in TcGroupGrads
    /\ tcOut = <<>>
    /\ tcGrad = <<>>
    /\ tcPc = "start"
    /\ FpsIdle
    /\ GrpIdle

\* gather_points: output(b, c, np) = points(b, c, idx(b, np))
GatherPoints(points, idx) ==
    [b \in DOMAIN points |-> [c \in DOMAIN points[b] |->
        [m \in DOMAIN idx[b] |-> points[b][c][idx[b][m]]]]]

\* group_points: output(b, c, np, ns) = points(b, c, idx(b, np, ns))
GroupPoints(points, idx) ==
    [b \in DOMAIN points |-> [c \in DOMAIN points[b] |->
        [m \in DOMAIN idx[b] |-> [k \in DOMAIN idx[b][m] |->
            points[b][c][idx[b][m][k]]]]]]

\* a reduction that stores instead of accumulating
StoreAt(acc, a, v) == [acc EXCEPT ![a] = v]

\* one term of a "+=" reduction
AddAt(acc, a, v) == [acc EXCEPT ![a] = @ + v]

\* "+=!" over np = 0..n-1: the output starts at zero, every term is added
RECURSIVE ReduceGather(_, _, _, _)
ReduceGather(zero, idxRow, gradRow, n) ==
    IF n = 0
    THEN zero
    ELSE AddAt(ReduceGather(zero, idxRow, gradRow, n - 1),
               idxRow[n - 1], gradRow[n - 1])

\* gather_points_grad: a = idx(b, np); grad_points(b, c, a) +=! grad_out(b, c, np)
GatherPointsGrad(points, idx, grad_out) ==
    [b \in DOMAIN points |-> [c \in DOMAIN points[b] |->
        ReduceGather([n \in DOMAIN points[b][c] |-> 0], idx[b], grad_out[b][c],
                     Cardinality(DOMAIN idx[b]))]]

\* "+=!" over (np, ns), ns innermost
RECURSIVE ReduceGroup(_, _, _, _, _)
ReduceGroup(zero, idxRows, gradRows, ns, n) ==
    IF n = 0
    THEN zero
    ELSE AddAt(ReduceGroup(zero, idxRows, gradRows, ns, n - 1),
               idxRows[(n - 1) \div ns][(n - 1) % ns],
               gradRows[(n - 1) \div ns][(n - 1) % ns])

\* group_points_grad: grad_points(b, c, idx(b, np, ns)) +=! grad_out(b, c, np, ns)
GroupPointsGrad(points, idx, grad_out) ==
    [b \in DOMAIN points |-> [c \in DOMAIN points[b] |->
        ReduceGroup([n \in DOMAIN points[b][c] |-> 0], idx[b], grad_out[b][c],
                    Cardinality(TcSamples),
                    Cardinality(DOMAIN idx[b]) * Cardinality(TcSamples))]]

GatherForward ==
    /\ tcOp = "gather"
    /\ tcPc = "start"
    /\ tcOut' = GatherPoints(tcPoints, tcIdx)
    /\ tcPc' = "forward"
    /\ UNCHANGED <<tcOp, tcPoints, tcIdx, tcGradOut, tcGrad, fpsVars, grpVars>>

GatherBackward ==
    /\ tcOp = "gather"
    /\ tcPc = "forward"
    /\ tcGrad' = GatherPointsGrad(tcPoints, tcIdx, tcGradOut)
    /\ tcPc' = "backward"
    /\ UNCHANGED <<tcOp, tcPoints, tcIdx, tcGradOut, tcOut, fpsVars, grpVars>>

GroupForward ==
    /\ tcOp = "group"
    /\ tcPc = "start"
    /\ tcOut' = GroupPoints(tcPoints, tcIdx)
    /\ tcPc' = "forward"
    /\ UNCHANGED <<tcOp, tcPoints, tcIdx, tcGradOut, tcGrad, fpsVars, grpVars>>

GroupBackward ==
    /\ tcOp = "group"
    /\ tcPc = "forward"
    /\ tcGrad' = GroupPointsGrad(tcPoints, tcIdx, tcGradOut)
    /\ tcPc' = "backward"
    /\ UNCHANGED <<tcOp, tcPoints, tcIdx, tcGradOut, tcOut, fpsVars, grpVars>>

NextTc ==
    \/ GatherForward
    \/ GatherBackward
    \/ GroupForward
    \/ GroupBackward

SpecTc == TcInit /\ [][NextTc]_vars

\* ------------------------------------------------------------------ ball query, grouping
GrpN == 2          \* points per batch element
MaxRadius == 1     \* largest radius, in grid units
MaxSample == 2     \* largest nsample
GrpBatch == {0}
GrpCentres == {0, 1}
GrpPts == {<<0, 0, 0>>, <<1, 0, 0>>, <<0, 2, 0>>}
GrpCentrePts == {<<0, 0, 0>>, <<1, 1, 0>>}
GrpChans == {1, 2}
Axes == 0..2

\* Python's None where a tensor is expected
NoTensor == <<>>

\* the group_points function object, as a returned value
FunctionObject == [function |-> "group_points"]

\* a tensor, as a returned value
Tensor(t) == [tensor |-> t]

\* descriptors with C channels, every entry different
Descriptors(C) ==
    [b \in GrpBatch |-> [c \in 0..(C - 1) |-> [n \in 0..(GrpN - 1) |->
        1 + n + GrpN * c]]]

GrpInit ==
    /\ gXyz \in [GrpBatch -> [0..(GrpN - 1) -> GrpPts]]
    /\ gNewXyz \in [GrpBatch -> [GrpCentres -> GrpCentrePts]]
    /\ gPoints \in {NoTensor} \cup {Descriptors(C) : C \in GrpChans}
    /\ gRadius \in 0..MaxRadius
    /\ gNsample \in 0..MaxSample
    /\ gUseXyz \in BOOLEAN
    /\ gIdx = <<>>
    /\ gCnt = <<>>
    /\ gRet = <<>>
    /\ gPc = "start"
    /\ FpsIdle
    /\ TcIdle

\* an index buffer that is allocated and not zeroed
NewIdxNoZero(rows, centres, cols) ==
    [b \in 0..(rows - 1) |-> [m \in 0..(centres - 1) |->
        [k \in 0..(cols - 1) |-> Uninit]]]

\* idx = torch.cuda.IntTensor(B, npoint, nsample).zero_()
NewIdx(rows, centres, cols) ==
    [b \in 0..(rows - 1) |-> [m \in 0..(centres - 1) |->
        [k \in 0..(cols - 1) |-> 0]]]

\* The search of one centre after the first n points were scanned, in index
\* order: a point within radius is written to the next free entry while
\* fewer than nsample were written.  <<row, number written>>
RECURSIVE BallScan(_, _, _, _, _, _)
BallScan(row, centre, pts, radius, nsample, n) ==
    IF n = 0
    THEN <<row, 0>>
    ELSE LET prev == BallScan(row, centre, pts, radius, nsample, n - 1)
         IN IF /\ prev[2] < nsample
               /\ Dist2(pts[n - 1], centre) <= Sq(radius)
            THEN <<[prev[1] EXCEPT ![prev[2]] = n - 1], prev[2] + 1>>
            ELSE prev

\* pointnet2.ball_query_wrapper(B, N, npoint, radius, nsample, new_xyz, xyz, idx)
BallQueryKernel(rows, n, centres, radius, nsample, new_xyz, pts, idx) ==
    [b \in 0..(rows - 1) |-> [m \in 0..(centres - 1) |->
        BallScan(idx[b][m], new_xyz[b][m], pts[b], radius, nsample, n)]]

\* BallQuery.forward; the kernel's per-centre counts are kept beside idx
BallQueryForward(radius, nsample, pts, new_xyz) ==
    LET rows == Cardinality(DOMAIN pts)
        n == Cardinality(DOMAIN pts[0])
        centres == Cardinality(DOMAIN new_xyz[0])
        idx == NewIdx(rows, centres, nsample)
        out == BallQueryKernel(rows, n, centres, radius, nsample, new_xyz,
                               pts, idx)
    IN [idx |-> [b \in DOMAIN out |-> [m \in DOMAIN out[b] |-> out[b][m][1]]],
        cnt |-> [b \in DOMAIN out |-> [m \in DOMAIN out[b] |-> out[b][m][2]]]]

\* xyz.transpose(1, 2): (B, N, 3) to (B, 3, N)
Transpose12(t) ==
    [b \in DOMAIN t |-> [a \in Axes |-> [n \in DOMAIN t[b] |-> t[b][n][a + 1]]]]

\* torch.cat([s, t], dim=1)
Cat1(s, t) ==
    [b \in DOMAIN s |->
        LET cs == Cardinality(DOMAIN s[b])
            ct == Cardinality(DOMAIN t[b])
        IN [c \in 0..(cs + ct - 1) |->
               IF c < cs THEN s[b][c] ELSE t[b][c - cs]]]

\* t.unsqueeze(2) of a (B, C, N) tensor: (B, C, 1, N)
Unsqueeze2(t) ==
    [b \in DOMAIN t |-> [c \in DOMAIN t[b] |-> [m \in {0} |-> t[b][c]]]]

\* QueryAndGroup.forward
QueryAndGroupFn(radius, nsample, use_xyz, pts, new_xyz, points) ==
    LET bq == BallQueryForward(radius, nsample, pts, new_xyz)
        xyz_trans == Transpose12(pts)
        grouped == GroupPoints(xyz_trans, bq.idx)
        grouped_xyz ==
            [b \in DOMAIN grouped |-> [a \in DOMAIN grouped[b] |->
                [m \in DOMAIN grouped[b][a] |->
                    [k \in DOMAIN grouped[b][a][m] |->
                        grouped[b][a][m][k] - new_xyz[b][m][a + 1]]]]]
        new_points ==
            IF points # NoTensor
            THEN IF use_xyz
                 THEN Tensor(Cat1(grouped_xyz, GroupPoints(points, bq.idx)))
                 ELSE FunctionObject
            ELSE Tensor(grouped_xyz)
    IN [bq |-> bq, ret |-> new_points]

\* GroupAll.forward
GroupAllFn(use_xyz, pts, new_xyz, points) ==
    LET grouped_xyz == Unsqueeze2(Transpose12(pts))
    IN IF points # NoTensor
       THEN IF use_xyz
            THEN Tensor(Cat1(grouped_xyz, Unsqueeze2(points)))
            ELSE FunctionObject
       ELSE Tensor(grouped_xyz)

\* ball_query(radius, nsample, xyz, new_xyz)
BallQueryCall ==
    /\ gPc = "start"
    /\ LET bq == BallQueryForward(gRadius, gNsample, gXyz, gNewXyz)
       IN gIdx' = bq.idx /\ gCnt' = bq.cnt
    /\ gPc' = "ball_query"
    /\ UNCHANGED <<gXyz, gNewXyz, gPoints, gRadius, gNsample, gUseXyz, gRet,
                   fpsVars, tcVars>>

\* QueryAndGroup(radius, nsample, use_xyz)(xyz, new_xyz, points)
QueryAndGroupForward ==
    /\ gPc = "start"
    /\ LET r == QueryAndGroupFn(gRadius, gNsample, gUseXyz, gXyz, gNewXyz,
                                gPoints)
       IN gIdx' = r.bq.idx /\ gCnt' = r.bq.cnt /\ gRet' = r.ret
    /\ gPc' = "query_and_group"
    /\ UNCHANGED <<gXyz, gNewXyz, gPoints, gRadius, gNsample, gUseXyz,
                   fpsVars, tcVars>>

\* GroupAll(use_xyz)(xyz, new_xyz, points)
GroupAllForward ==
    /\ gPc = "start"
    /\ gRet' = GroupAllFn(gUseXyz, gXyz, gNewXyz, gPoints)
    /\ gPc' = "group_all"
    /\ UNCHANGED <<gXyz, gNewXyz, gPoints, gRadius, gNsample, gUseXyz, gIdx,
                   gCnt, fpsVars, tcVars>>

NextGrp ==
    \/ BallQueryCall
    \/ QueryAndGroupForward
    \/ GroupAllForward

SpecGrp == GrpInit /\ [][NextGrp]_vars

\* ================================================================== claims
Valid == 0 < npoint /\ npoint <= N

Image(f) == {f[k] : k \in DOMAIN f}

Injective(f) == \A j, k \in DOMAIN f : f[j] = f[k] => j = k

\* no two points of the batch element coincide
PairwiseApart(pts) ==
    \A i, j \in DOMAIN pts : i # j => Dist2(pts[i], pts[j]) > 0

C2_RejectedBeforeAllocation ==
    (npoint > N \/ npoint <= 0) =>
        /\ pc \notin {"allocated", "kernel", "returned"}
        /\ output = <<>>
        /\ temp = <<>>

\* the reference greedy algorithm, every round computed from the points
\* alone: the minimum distance of point i to the indices selected so far
MinDistTo(pts, sel, i) ==
    LET ds == {Dist2(pts[i], pts[sel[j]]) : j \in DOMAIN sel}
    IN CHOOSE d \in ds : \A e \in ds : d <= e

RECURSIVE RefGreedy(_, _)
RefGreedy(pts, k) ==
    IF k = 1
    THEN [j \in {0} |-> 0]
    ELSE LET sel == RefGreedy(pts, k - 1)
             best == CHOOSE i \in DOMAIN pts :
                        /\ \A j \in DOMAIN pts :
                              MinDistTo(pts, sel, j) <= MinDistTo(pts, sel, i)
                        /\ \A j \in DOMAIN pts :
                              MinDistTo(pts, sel, j) = MinDistTo(pts, sel, i)
                                  => i <= j
         IN [j \in 0..(k - 1) |-> IF j < k - 1 THEN sel[j] ELSE best]

\* C3: for every valid input the result is the reference greedy sequence:
\* index 0 first, then at each round the lowest index that maximises the
\* minimum distance to the indices selected before.
C3_EqualsReferenceGreedy ==
    (pc = "returned" /\ Valid) =>
        \A b \in Lanes : result[b] = RefGreedy(xyz[b], npoint)

\* C4: backward raises nothing, returns no gradient for xyz and none for
\* npoint, and leaves xyz.grad at zero, whatever gradient comes in.
C4_BackwardZeroGradient ==
    bwdResult # <<>> =>
        /\ bwdResult = <<None, None>>
        /\ xyzGrad = 0
        /\ err = "none"
        /\ pc = "returned"

C4_Witness ==
    /\ bwdResult = <<None, None>>
    /\ gradOut = 1
    /\ xyzGrad = 0
    /\ Valid

\* C5: the scratch is the sentinel everywhere when the kernel starts, and a
\* call returns what an earlier call with the same points and npoint
\* returned, whatever calls came between.
C5_Deterministic ==
    /\ pc = "allocated" =>
          \A b \in Lanes : \A i \in 0..(N - 1) : temp[b][i] = TempInit
    /\ (pc = "returned" /\ memo # <<>> /\ memo[1] = xyz /\ memo[2] = npoint)
          => result = memo[3]

C5_Witness ==
    /\ pc = "returned"
    /\ memo # <<>>
    /\ memo[1] = xyz
    /\ memo[2] = npoint
    /\ npoint = 2
    /\ N = 2
    /\ result = memo[3]
    /\ result[0][1] = 1
    /\ temp[0][1] < TempInit

\* lane b's algorithm run alone on a scratch row of its own: the state
\* <<row, out>> after k selections
RECURSIVE SampleAlone(_, _)
SampleAlone(pts, k) ==
    IF k = 0
    THEN <<[i \in DOMAIN pts |-> TempInit], <<>>>>
    ELSE IF k = 1
    THEN <<[i \in DOMAIN pts |-> TempInit], [j \in {0} |-> 0]>>
    ELSE LET prev == SampleAlone(pts, k - 1)
             row == UpdateDist(prev[1], pts, prev[2][k - 2])
         IN <<row, [j \in 0..(k - 1) |->
                       IF j < k - 1 THEN prev[2][j] ELSE ArgMax(row)]>>

\* a step of the running kernel that is not lane b's leaves lane b's
\* scratch row and output row alone
OwnRowsOnly ==
    (pc = "kernel" /\ pc' = "kernel") =>
        \A b \in Lanes :
            cnt'[b] = cnt[b] => (temp'[b] = temp[b] /\ output'[b] = output[b])

\* C6: under every interleaving of the lanes, a lane's rows are written by
\* that lane only, and the indices returned for batch element b are those
\* of sampling element b alone.
C6_LanesIndependent ==
    /\ [](pc = "returned" =>
            \A b \in Lanes : \A k \in 0..(npoint - 1) :
                result[b][k] = SampleAlone(xyz[b], npoint)[2][k])
    /\ [][OwnRowsOnly]_vars

C6_Witness ==
    /\ pc = "kernel"
    /\ B = 2
    /\ N = 2
    /\ npoint = 2
    /\ cnt[0] = 1
    /\ cnt[1] = 2
    /\ xyz[0] # xyz[1]
    /\ output[1][1] = 1

\* one step of the running kernel: a lane records at most one selection,
\* that selection is computed from the previous one of the same lane, and
\* what was recorded stays
RoundAfterRound ==
    (pc = "kernel" /\ pc' = "kernel") =>
        \A b \in Lanes :
            \/ cnt'[b] = cnt[b] /\ old'[b] = old[b]
            \/ /\ cnt'[b] = cnt[b] + 1
               /\ cnt'[b] <= npoint
               /\ output'[b][cnt[b]] = old'[b]
               /\ \A k \in 0..(cnt[b] - 1) : output'[b][k] = output[b][k]
               /\ cnt[b] >= 1 =>
                     /\ old[b] = output[b][cnt[b] - 1]
                     /\ old'[b] = ArgMax(UpdateDist(temp[b], xyz[b], old[b]))

\* a step that ends the call ends it with exactly npoint selections recorded
\* by every lane
ReturnAfterAllLanes ==
    pc' = "returned" => \A b \in Lanes : cnt'[b] = npoint

\* C10: within a lane the rounds follow one another, each using the
\* previous selection of that lane; the call returns only when every lane
\* has recorded exactly npoint selections; and a dispatched call does
\* return, so every lane gets through its npoint rounds.
C10_SequentialRounds ==
    /\ [][RoundAfterRound /\ ReturnAfterAllLanes]_vars
    /\ (pc = "kernel") ~> (pc = "returned")

C10_Witness ==
    /\ pc = "returned"
    /\ B = 2
    /\ Valid
    /\ npoint = 2
    /\ cnt[0] = 2
    /\ cnt[1] = 2
    /\ old[1] = result[1][1]

\* the sum of f over the finite set S
RECURSIVE SumOf(_, _)
SumOf(f, S) ==
    IF S = {}
    THEN 0
    ELSE LET x == CHOOSE y \in S : TRUE
         IN f[x] + SumOf(f, S \ {x})

\* C7: gather's output is values[b,c,indices[b,m]]; its gradient has the
\* shape of the values, and entry [b,c,n] is the sum of grad_out[b,c,m] over
\* the m with indices[b,m] = n (0 when there is none); the grouped variant
\* does the same over (m, s).
C7_GatherScatter ==
    /\ (tcOp = "gather" /\ tcPc \in {"forward", "backward"}) =>
          \A b \in TcBatch : \A c \in TcChan : \A m \in TcCentres :
              tcOut[b][c][m] = tcPoints[b][c][tcIdx[b][m]]
    /\ (tcOp = "gather" /\ tcPc = "backward") =>
          \A b \in TcBatch : \A c \in TcChan :
              /\ DOMAIN tcGrad[b][c] = TcPos
              /\ \A n \in TcPos :
                    tcGrad[b][c][n] =
                        SumOf(tcGradOut[b][c],
                              {m \in TcCentres : tcIdx[b][m] = n})
    /\ (tcOp = "group" /\ tcPc \in {"forward", "backward"}) =>
          \A b \in TcBatch : \A c \in TcChan :
              \A m \in TcCentres : \A k \in TcSamples :
                  tcOut[b][c][m][k] = tcPoints[b][c][tcIdx[b][m][k]]
    /\ (tcOp = "group" /\ tcPc = "backward") =>
          \A b \in TcBatch : \A c \in TcChan :
              /\ DOMAIN tcGrad[b][c] = TcPos
              /\ \A n \in TcPos :
                    tcGrad[b][c][n] =
                        SumOf([p \in TcCentres \X TcSamples |->
                                  tcGradOut[b][c][p[1]][p[2]]],
                              {p \in TcCentres \X TcSamples :
                                  tcIdx[b][p[1]][p[2]] = n})

C7_Witness ==
    /\ tcOp = "gather"
    /\ tcPc = "backward"
    /\ tcIdx[1][0] = 1
    /\ tcIdx[1][1] = 1
    /\ tcGradOut[1][1][0] # tcGradOut[1][1][1]
    /\ tcGrad[1][1][1] = tcGradOut[1][1][0] + tcGradOut[1][1][1]
    /\ tcGrad[1][1][0] = 0

\* the points of batch element b within radius of centre m
InBall(b, m) ==
    {n \in DOMAIN gXyz[b] : Dist2(gXyz[b][n], gNewXyz[b][m]) <= Sq(gRadius)}

\* C8: every centre's index row has exactly nsample entries; the search
\* writes at most nsample of them, each the index of a point within radius;
\* when fewer than nsample points are within radius, every other entry is
\* zero or repeats a written index.
C8_BallQueryRows ==
    gPc \in {"ball_query", "query_and_group"} =>
        \A b \in GrpBatch : \A m \in GrpCentres :
            /\ DOMAIN gIdx[b][m] = 0..(gNsample - 1)
            /\ gCnt[b][m] <= gNsample
            /\ gCnt[b][m] <= Cardinality(InBall(b, m))
            /\ \A k \in 0..(gCnt[b][m] - 1) : gIdx[b][m][k] \in InBall(b, m)
            /\ Cardinality(InBall(b, m)) < gNsample =>
                  \A k \in gCnt[b][m]..(gNsample - 1) :
                      \/ gIdx[b][m][k] = 0
                      \/ \E j \in 0..(gCnt[b][m] - 1) :
                            gIdx[b][m][k] = gIdx[b][m][j]

C8_Witness ==
    /\ gPc = "ball_query"
    /\ gNsample = 2
    /\ InBall(0, 1) = {1}
    /\ gCnt[0][1] = 1
    /\ gIdx[0][1][0] = 1
    /\ gIdx[0][1][1] = 0

\* the channels a grouping module's result must have
ExpectedChannels ==
    IF gPoints = NoTensor
    THEN 3
    ELSE IF gUseXyz
         THEN 3 + Cardinality(DOMAIN gPoints[0])
         ELSE Cardinality(DOMAIN gPoints[0])

\* C9: QueryAndGroup.forward and GroupAll.forward return a tensor for every
\* combination of their inputs, with 3 + C, 3 or C channels.
C9_AlwaysTensor ==
    gPc \in {"query_and_group", "group_all"} =>
        /\ "tensor" \in DOMAIN gRet
        /\ \A b \in GrpBatch :
              Cardinality(DOMAIN gRet.tensor[b]) = ExpectedChannels

====
